---- MODULE Spec2Model ----
\* Model of the HSDP connector (connector/hsdp/hsdp.go): the login URL builder,
\* the callback exchanger, the refresh and token-exchange entry points and the
\* identity resolver they share (createIdentity), with the session blob
\* (ConnectorData) serialized and parsed as encoding/json does it.
EXTENDS Integers, Sequences, FiniteSets, TLC

\* ---------------------------------------------------------------- bounds

\* Number of refresh tokens the upstream hands out to one session, the first at
\* login and the next ones when a redemption rotates the token.
MaxTokens == 2

\* Number of goroutines that call Close, and number of Close calls each makes.
MaxClosers == 2

MaxCloses == 2

\* ------------------------------------------------------- byte strings

\* Go strings that hold tokens and assertions are modelled as byte sequences.
EmptyStr == <<>>

RefreshTok(n) == <<114, 48 + n>>        \* "r1", "r2", ...

AccessTok == <<97, 49>>                 \* "a1"

SubjectTok == <<115, 255>>              \* a subject token, not valid UTF-8

AssertionXYZ == <<88, 89, 90>>          \* "XYZ"

\* []byte values: Go tells a nil slice from an empty one.
NilBytes == [nil |-> TRUE, b |-> <<>>]

\* []byte(s): the conversion always yields a non-nil slice.
ToBytes(s) == [nil |-> FALSE, b |-> s]

\* string(b)
BytesToString(bs) == bs.b

\* ---------------------------------------------------- encoding/json

\* The value 64 stands for the padding character '='.
Pad == 64

RECURSIVE Base64Encode(_)
\* base64.StdEncoding.EncodeToString as json.Marshal applies it to a []byte:
\* three bytes become four sextets, a tail of one or two bytes is padded.
Base64Encode(b) ==
    IF Len(b) = 0 THEN <<>>
    ELSE IF Len(b) = 1 THEN
        << b[1] \div 4, (b[1] % 4) * 16, Pad, Pad >>
    ELSE IF Len(b) = 2 THEN
        << b[1] \div 4, (b[1] % 4) * 16 + (b[2] \div 16), (b[2] % 16) * 4, Pad >>
    ELSE
        << b[1] \div 4, (b[1] % 4) * 16 + (b[2] \div 16),
           (b[2] % 16) * 4 + (b[3] \div 64), b[3] % 64 >>
        \o Base64Encode(SubSeq(b, 4, Len(b)))

RECURSIVE Base64Decode(_)
\* base64.StdEncoding.DecodeString as json.Unmarshal applies it: the input is
\* read four sextets at a time, padding is accepted in the last group only.
Base64Decode(s) ==
    IF Len(s) = 0 THEN [ok |-> TRUE, b |-> <<>>]
    ELSE IF Len(s) < 4 THEN [ok |-> FALSE, b |-> <<>>]
    ELSE
        LET w == s[1]
            x == s[2]
            y == s[3]
            z == s[4]
            last == Len(s) = 4
        IN  IF w = Pad \/ x = Pad THEN [ok |-> FALSE, b |-> <<>>]
            ELSE IF y = Pad THEN
                IF z = Pad /\ last
                THEN [ok |-> TRUE, b |-> << w * 4 + (x \div 16) >>]
                ELSE [ok |-> FALSE, b |-> <<>>]
            ELSE IF z = Pad THEN
                IF last
                THEN [ok |-> TRUE,
                      b |-> << w * 4 + (x \div 16), (x % 16) * 16 + (y \div 4) >>]
                ELSE [ok |-> FALSE, b |-> <<>>]
            ELSE
                LET rest == Base64Decode(SubSeq(s, 5, Len(s)))
                IN  [ok |-> rest.ok,
                     b |-> << w * 4 + (x \div 16), (x % 16) * 16 + (y \div 4),
                              (y % 4) * 64 + z >> \o rest.b]

JNull == [t |-> "null"]

\* A []byte field is written as null when nil, else as a base64 string.
JBytes(bs) == IF bs.nil THEN JNull ELSE [t |-> "string", v |-> Base64Encode(bs.b)]

\* A struct field is written as an object.
JObject(rec) == [t |-> "object", v |-> rec]

\* iam.IntrospectResponse and iam.Profile zero values.
ZeroIntrospect == [Active |-> FALSE, Sub |-> "", Username |-> "", IdentityType |-> ""]

ZeroProfile == [ID |-> "", LoginID |-> ""]

\* ConnectorData{}
ZeroConnectorData ==
    [RefreshToken |-> NilBytes, AccessToken |-> NilBytes, Assertion |-> NilBytes,
     Introspect |-> ZeroIntrospect, User |-> ZeroProfile]

\* identity.ConnectorData is a byte document: nil, not JSON at all, or an object.
NilDoc == [kind |-> "nil"]

GarbageDoc == [kind |-> "garbage"]

\* json.Marshal(&cd). Groups, TrustedIDPOrg, AudienceTrustMap and TenantMap are
\* never set by this connector and are always written as their zero values.
MarshalConnectorData(cd) ==
    [kind |-> "object",
     fields |-> [RefreshToken |-> JBytes(cd.RefreshToken),
                 AccessToken  |-> JBytes(cd.AccessToken),
                 Assertion    |-> JBytes(cd.Assertion),
                 Introspect   |-> JObject(cd.Introspect),
                 User         |-> JObject(cd.User)]]

\* Decoding one JSON value into a []byte field.
UnmarshalBytes(j) ==
    IF j.t = "null" THEN [ok |-> TRUE, bs |-> NilBytes]
    ELSE IF j.t = "string" THEN
        LET d == Base64Decode(j.v)
        IN  [ok |-> d.ok, bs |-> IF d.ok THEN ToBytes(d.b) ELSE NilBytes]
    ELSE [ok |-> FALSE, bs |-> NilBytes]

\* Decoding one JSON value into a struct field.
UnmarshalStruct(j, zero) ==
    IF j.t = "null" THEN [ok |-> TRUE, v |-> zero]
    ELSE IF j.t = "object" THEN [ok |-> TRUE, v |-> j.v]
    ELSE [ok |-> FALSE, v |-> zero]

\* json.Unmarshal(identity.ConnectorData, &cd)
UnmarshalConnectorData(doc) ==
    IF doc.kind # "object" THEN [ok |-> FALSE, cd |-> ZeroConnectorData]
    ELSE
        LET f  == doc.fields
            rt == UnmarshalBytes(f.RefreshToken)
            at == UnmarshalBytes(f.AccessToken)
            as == UnmarshalBytes(f.Assertion)
            ir == UnmarshalStruct(f.Introspect, ZeroIntrospect)
            us == UnmarshalStruct(f.User, ZeroProfile)
        IN  IF rt.ok /\ at.ok /\ as.ok /\ ir.ok /\ us.ok
            THEN [ok |-> TRUE,
                  cd |-> [RefreshToken |-> rt.bs, AccessToken |-> at.bs,
                          Assertion |-> as.bs, Introspect |-> ir.v, User |-> us.v]]
            ELSE [ok |-> FALSE, cd |-> ZeroConnectorData]

\* ------------------------------------------------------------ values

\* error values, by the kind the error taxonomy gives them
NoErr == [kind |-> "", code |-> "", desc |-> ""]

Err(kind) == [kind |-> kind, code |-> "", desc |-> ""]

\* &oauth2Error{errType, q.Get("error_description")}
oauth2Error(errType, errorDescription) ==
    [kind |-> "UpstreamAuthError", code |-> errType, desc |-> errorDescription]

\* the zero connector.Identity
EmptyIdentity ==
    [UserID |-> "", Username |-> "", Email |-> "", EmailVerified |-> FALSE,
     ConnectorData |-> NilDoc]

\* URLs are a path and a set of query parameters; "" is the empty URL string.
NoURL == [path |-> "", q |-> {}]

RedirectURI == "https://dex.example/callback"

OtherCallbackURL == "https://evil.example/callback"

SAMLLoginURL == "https://iam.example/saml"

BadURL == "%zz"

AuthURL == "https://iam.example/authorize"

\* url.Parse
ParseURL(s) ==
    IF s = BadURL THEN [ok |-> FALSE, u |-> NoURL]
    ELSE [ok |-> TRUE, u |-> [path |-> s, q |-> {}]]

\* url.Values.Set followed by Encode into RawQuery
SetParam(u, k, v) ==
    [u EXCEPT !.q = {p \in u.q : p.k # k} \cup {[k |-> k, v |-> v]}]

\* the caller tag threaded through createIdentity
createCaller == "create"

refreshCaller == "refresh"

exchangeCaller == "exchange"

\* ------------------------------------------------------ construction

RECURSIVE removeElement(_, _)
removeElement(slice, elementToRemove) ==
    IF Len(slice) = 0 THEN <<>>
    ELSE (IF slice[1] # elementToRemove THEN <<slice[1]>> ELSE <<>>)
         \o removeElement(Tail(slice), elementToRemove)

\* The configurations the connector is opened with. InsecureSkipEmailVerified
\* is set in those that leave the scopes to their default, so that each
\* protocol mode and each hosted-domain list comes with the flag set and unset.
Configs ==
    {cfg \in [SAML2LoginURL : {"", SAMLLoginURL, BadURL},
              Scopes        : {<<>>, <<"federated:id", "profile">>},
              HostedDomains : {<<>>, <<"acme.com", "corp.com">>, <<"">>},
              PromptType    : {""},
              InsecureSkipEmailVerified : BOOLEAN] :
        cfg.InsecureSkipEmailVerified = (Len(cfg.Scopes) = 0)}

\* Config.Open, on the path where discovery and the client are created.
Open(cfg) ==
    [redirectURI   |-> RedirectURI,
     samlLoginURL  |-> cfg.SAML2LoginURL,
     scopes        |-> <<"openid">> \o
                       (IF Len(cfg.Scopes) > 0
                        THEN removeElement(cfg.Scopes, "federated:id")
                        ELSE <<"profile", "email", "groups">>),
     hostedDomains |-> cfg.HostedDomains,
     insecureSkipEmailVerified |-> cfg.InsecureSkipEmailVerified,
     promptType    |-> IF cfg.PromptType = "" THEN "consent" ELSE cfg.PromptType]

\* The test is inverted.
isSAMLInverted(c) == Len(c.samlLoginURL) = 0

isSAML(c) == Len(c.samlLoginURL) > 0

\* ------------------------------------------------- upstream responses

NotCalled == [status |-> "notcalled"]

\* claims["k"].(string)
ClaimString(claims, k) ==
    IF k \in DOMAIN claims /\ claims[k].t = "string"
    THEN [v |-> claims[k].v, ok |-> TRUE]
    ELSE [v |-> "", ok |-> FALSE]

JStr(s) == [t |-> "string", v |-> s]

\* Claim bags the userinfo endpoint may answer with. A bag with an email
\* address says of it that it is not verified.
ClaimBag(sub, email, hd) ==
    [k \in {"sub"} \cup (IF email = "absent" THEN {} ELSE {"email"})
                   \cup (IF email \in {"absent", "number"} THEN {} ELSE {"email_verified"})
                   \cup (IF hd = "absent" THEN {} ELSE {"hd"}) |->
        IF k = "sub" THEN JStr(sub)
        ELSE IF k = "email"
             THEN (IF email = "number" THEN [t |-> "number", n |-> 42] ELSE JStr(email))
        ELSE IF k = "email_verified" THEN [t |-> "bool", b |-> FALSE]
        ELSE JStr(hd)]

UserInfoResponses ==
    {[status |-> "error"], [status |-> "badclaims"]}
    \cup {[status |-> "ok", claims |-> ClaimBag("u1", e, h)] :
            e \in {"absent", "user@acme.com"}, h \in {"absent", "acme.com", "other.com"}}
    \cup {[status |-> "ok", claims |-> ClaimBag("u1", "number", "acme.com")]}

IntrospectResponses ==
    {[status |-> "error"]}
    \cup {[status |-> "ok",
           resp |-> [Active |-> TRUE, Sub |-> st[1], Username |-> "alice",
                     IdentityType |-> st[2]]] :
            st \in {<<"u1", "User">>, <<"u2", "User">>, <<"u2", "Service">>}}

ProfileResponses ==
    {[status |-> "error", hasUser |-> FALSE, user |-> ZeroProfile],
     [status |-> "ok", hasUser |-> TRUE, user |-> [ID |-> "p1", LoginID |-> "alice"]]}

\* oauth2.Token
Token(access, refresh, type, expiry) ==
    [AccessToken |-> access, RefreshToken |-> refresh, TokenType |-> type, Expiry |-> expiry]

NoToken == Token(EmptyStr, EmptyStr, "", "zero")

\* ------------------------------------------------------------- state

VARIABLES
    conn,    \* the HSDPConnector built by Config.Open; no method assigns its fields
    op,      \* the method of the latest invocation
    arg,     \* the inputs of the latest invocation
    up,      \* what the upstream collaborators answered during it, and the tokens used
    calls,   \* the collaborator calls it made, in order
    ret,     \* what it returned: identity, url, err
    parentContext,   \* the context Config.Open made with context.WithCancel
    closers          \* the goroutines that call Close: position, calls made, results

vars == <<conn, op, arg, up, calls, ret, parentContext, closers>>

\* the variables of the latest invocation
invocation == <<op, arg, up, calls, ret>>

\* http.Request of a callback; NilRequest is the nil *http.Request.
Request(error, desc, assertion) ==
    [nil |-> FALSE, error |-> error, error_description |-> desc,
     assertion |-> assertion, code |-> "code1"]

NilRequest ==
    [nil |-> TRUE, error |-> "", error_description |-> "", assertion |-> EmptyStr,
     code |-> ""]

Requests ==
    {Request(e[1], e[2], a) :
        e \in {<<"", "">>, <<"access_denied", "user said no">>},
        a \in {EmptyStr, AssertionXYZ}}

\* ------------------------------------------------- identity resolver

\* The first scope only is looked at.
hasEmailScopeFirstOnly(c) == c.scopes[1] = "email"

\* the loop over c.oauth2Config.Scopes
hasEmailScope(c) == \E i \in 1..Len(c.scopes) : c.scopes[i] = "email"

\* the loop over c.hostedDomains
domainListed(c, hostedDomain) ==
    \E i \in 1..Len(c.hostedDomains) : c.hostedDomains[i] = hostedDomain

\* The assertion is kept for every callback, whatever the protocol mode.
savedAssertionAnyMode(c, r, caller) ==
    IF caller = createCaller /\ ~r.nil
    THEN [ZeroConnectorData EXCEPT !.Assertion = ToBytes(r.assertion)]
    ELSE ZeroConnectorData

\* cd := ConnectorData{} and the "Save assertion" block
savedAssertion(c, r, caller) ==
    IF caller = createCaller /\ isSAML(c) /\ ~r.nil
    THEN [ZeroConnectorData EXCEPT !.Assertion = ToBytes(r.assertion)]
    ELSE ZeroConnectorData

\* The Service override is left out.
resolveEmailClaimOnly(claims, ir) ==
    LET ec == ClaimString(claims, "email")
    IN  [email |-> ec.v, found |-> ec.ok]

\* email, found := claims["email"].(string), overridden for Service identities
resolveEmail(claims, ir) ==
    LET ec == ClaimString(claims, "email")
    IN  IF ir.IdentityType = "Service"
        THEN [email |-> ir.Sub, found |-> TRUE]
        ELSE [email |-> ec.v, found |-> ec.ok]

\* The refresh-token field is filled from the access token.
sessionDataSwapped(cd0, token, ir, prof) ==
    [cd0 EXCEPT !.RefreshToken = ToBytes(token.AccessToken),
                !.AccessToken  = ToBytes(token.AccessToken),
                !.Introspect   = ir,
                !.User         = IF prof.hasUser THEN prof.user ELSE @]

\* cd.RefreshToken, cd.AccessToken, cd.Introspect and, when the profile lookup
\* returned a user, cd.User
sessionData(cd0, token, ir, prof) ==
    [cd0 EXCEPT !.RefreshToken = ToBytes(token.RefreshToken),
                !.AccessToken  = ToBytes(token.AccessToken),
                !.Introspect   = ir,
                !.User         = IF prof.hasUser THEN prof.user ELSE @]

\* The user identifier is taken from the userinfo claims.
newIdentityFromUserInfo(claims, ir, email, emailVerified) ==
    [UserID        |-> ClaimString(claims, "sub").v,
     Username      |-> ir.Username,
     Email         |-> email,
     EmailVerified |-> emailVerified,
     ConnectorData |-> NilDoc]

\* identity = connector.Identity{...}
newIdentity(claims, ir, email, emailVerified) ==
    [UserID        |-> ir.Sub,
     Username      |-> ir.Username,
     Email         |-> email,
     EmailVerified |-> emailVerified,
     ConnectorData |-> NilDoc]

Result(identity, err, trace) == [identity |-> identity, err |-> err, calls |-> trace]

\* The flag follows the email_verified claim unless the configuration says to
\* skip the verification.
emailVerifiedFromClaim(c, claims) ==
    \/ c.insecureSkipEmailVerified
    \/ /\ "email_verified" \in DOMAIN claims
       /\ claims["email_verified"].t = "bool"
       /\ claims["email_verified"].b

\* emailVerified := true, and the SAML branch that sets it to true again
emailVerified(c, claims) == IF isSAML(c) THEN TRUE ELSE TRUE

\* The policy checks are made after the profile lookup.
rejectedAfterProfile(identity, kind) ==
    Result(identity, Err(kind), <<"UserInfo", "Introspect", "Profile">>)

\* The returns of the email check and of the hosted-domain check, both placed
\* before the profile lookup.
rejected(identity, kind) ==
    Result(identity, Err(kind), <<"UserInfo", "Introspect">>)

\* An error of the profile lookup is returned to the caller.
profileOutcomeFatal(identity, resolved, prof) ==
    IF prof.status = "error"
    THEN Result(identity, Err("ProfileLookupFailed"), <<"UserInfo", "Introspect", "Profile">>)
    ELSE Result(resolved, NoErr, <<"UserInfo", "Introspect", "Profile">>)

\* The profile lookup and the return that follows it: an error of the lookup
\* is logged and the resolved identity is returned all the same.
profileOutcome(identity, resolved, prof) ==
    Result(resolved, NoErr, <<"UserInfo", "Introspect", "Profile">>)

\* HSDPConnector.createIdentity. ui, intro and prof are what the userinfo
\* endpoint, the introspection endpoint and the profile lookup answer when
\* (and if) the resolver calls them. On every error the identity that was
\* passed in is handed back.
createIdentity(c, identity, token, r, caller, ui, intro, prof) ==
    IF ui.status = "error" \/ ui.status = "badclaims"
    THEN Result(identity, Err("UserInfoFailed"), <<"UserInfo">>)
    ELSE IF intro.status = "error"
    THEN Result(identity, Err("IntrospectionFailed"), <<"UserInfo", "Introspect">>)
    ELSE
    LET claims == ui.claims
        ir     == intro.resp
        em     == resolveEmail(claims, ir)
        hostedDomain  == ClaimString(claims, "hd").v
    IN
    IF ~em.found /\ hasEmailScope(c)
    THEN rejected(identity, "MissingEmailClaim")
    ELSE IF Len(c.hostedDomains) > 0 /\ ~domainListed(c, hostedDomain)
    THEN rejected(identity, "DomainNotAllowed")
    ELSE
    LET cd == sessionData(savedAssertion(c, r, caller), token, ir, prof)
    IN  profileOutcome(identity,
                       [newIdentity(claims, ir, em.email, emailVerified(c, claims)) EXCEPT
                            !.ConnectorData = MarshalConnectorData(cd)],
                       prof)

\* ------------------------------------------------------ entry points

\* LoginURL past the callback URL check: the SAML2 flow, or the
\* authorization-code URL with the hd, access_type and prompt options.
buildLoginURL(c, offlineAccess, callbackURL, state) ==
    IF isSAML(c)
    THEN LET cbu == SetParam(ParseURL(callbackURL).u, "state", [str |-> state])
             u   == ParseURL(c.samlLoginURL)
         IN  IF ~u.ok
             THEN [url |-> NoURL, err |-> Err("InvalidSAMLURL")]
             ELSE [url |-> SetParam(u.u, "redirect_uri", [url |-> cbu]), err |-> NoErr]
    ELSE LET base == SetParam(SetParam([path |-> AuthURL, q |-> {}],
                                       "redirect_uri", [str |-> c.redirectURI]),
                              "state", [str |-> state])
             hd   == IF Len(c.hostedDomains) > 0
                     THEN SetParam(base, "hd",
                                   [str |-> IF Len(c.hostedDomains) > 1
                                            THEN "*" ELSE c.hostedDomains[1]])
                     ELSE base
             off  == IF offlineAccess
                     THEN SetParam(SetParam(hd, "access_type", [str |-> "offline"]),
                                   "prompt", [str |-> c.promptType])
                     ELSE hd
         IN  [url |-> off, err |-> NoErr]

\* parentContext, cancel := context.WithCancel(context.Background())
LiveContext == [done |-> FALSE, err |-> ""]

\* The cancel function of that context: the first call marks the context done
\* with the error Canceled, later calls find it done and change nothing. The
\* context's mutex makes each call one step.
cancel(ctx) ==
    IF ctx.done THEN ctx ELSE [done |-> TRUE, err |-> "context canceled"]

\* A Close that finds the connector closed refuses with an error.
CloseRefusesWhenClosed(ctx) ==
    IF ctx.done
    THEN [ctx |-> ctx, err |-> Err("AlreadyClosed")]
    ELSE [ctx |-> cancel(ctx), err |-> NoErr]

\* HSDPConnector.Close: what c.cancel() leaves of the context, and the error
\* returned.
Close(ctx) == [ctx |-> cancel(ctx), err |-> NoErr]

\* The callback URL is not compared with the configured one.
LoginURLUnchecked(c, offlineAccess, callbackURL, state) ==
    buildLoginURL(c, offlineAccess, callbackURL, state)

\* HSDPConnector.LoginURL
LoginURL(c, offlineAccess, callbackURL, state) ==
    IF c.redirectURI # callbackURL
    THEN [url |-> NoURL, err |-> Err("ConfigMismatch")]
    ELSE buildLoginURL(c, offlineAccess, callbackURL, state)

\* What the token endpoint answers to the exchange HandleCallback performs:
\* the bearer-assertion POST in SAML mode, oauth2Config.Exchange otherwise.
TokenResponse(rt) ==
    [status |-> "ok",
     tr |-> [AccessToken |-> AccessTok, RefreshToken |-> rt, TokenType |-> "Bearer"]]

\* A login is answered with the first refresh token, or with none.
TokenResponses == {TokenResponse(rt) : rt \in {EmptyStr, RefreshTok(1)}}

ExchangeResponses(c) ==
    IF isSAML(c)
    THEN {[status |-> "neterr"], [status |-> "readerr"], [status |-> "non200"],
          [status |-> "badjson"]} \cup TokenResponses
    ELSE {[status |-> "error"]} \cup TokenResponses

\* The SAML2 branch is missing: every callback goes through the code exchange.
exchangeCallbackCodeOnly(c, r, ex, ui, intro, prof) ==
    LET identity == EmptyIdentity
    IN
    IF ex.status # "ok"
    THEN [res |-> Result(identity, Err("TokenExchangeFailed"), <<"CodeExchange">>),
          token |-> NoToken]
    ELSE LET token == Token(ex.tr.AccessToken, ex.tr.RefreshToken, ex.tr.TokenType,
                            "future")
             res   == createIdentity(c, identity, token, r, createCaller, ui, intro, prof)
         IN  [res |-> [res EXCEPT !.calls = <<"CodeExchange">> \o @], token |-> token]

\* HandleCallback past the error parameter check: the bearer-assertion
\* exchange in SAML mode, the code exchange otherwise, then the resolver.
exchangeCallback(c, r, ex, ui, intro, prof) ==
    LET identity == EmptyIdentity
        call     == IF isSAML(c) THEN "AssertionExchange" ELSE "CodeExchange"
    IN
    IF ex.status # "ok"
    THEN [res |-> Result(identity, Err("TokenExchangeFailed"), <<call>>),
          token |-> NoToken]
    ELSE LET token == Token(ex.tr.AccessToken, ex.tr.RefreshToken, ex.tr.TokenType,
                            IF isSAML(c) THEN "unix-expires-in" ELSE "future")
             res   == createIdentity(c, identity, token, r, createCaller, ui, intro, prof)
         IN  [res |-> [res EXCEPT !.calls = <<call>> \o @], token |-> token]

\* The token endpoint is asked before the error parameter is looked at.
HandleCallbackExchangeFirst(c, r, ex, ui, intro, prof) ==
    IF r.error # ""
    THEN [res |-> Result(EmptyIdentity, oauth2Error(r.error, r.error_description),
                         <<IF isSAML(c) THEN "AssertionExchange" ELSE "CodeExchange">>),
          token |-> NoToken]
    ELSE exchangeCallback(c, r, ex, ui, intro, prof)

\* HSDPConnector.HandleCallback
HandleCallback(c, r, ex, ui, intro, prof) ==
    IF r.error # ""
    THEN [res |-> Result(EmptyIdentity, oauth2Error(r.error, r.error_description), <<>>),
          token |-> NoToken]
    ELSE exchangeCallback(c, r, ex, ui, intro, prof)

\* What the token endpoint answers to the redemption of the refresh token of
\* t: an error, a token without a refresh token, or a token with the next
\* refresh token, as long as the upstream has one left to hand out.
RedeemResponses(t) ==
    {[status |-> "error"], TokenResponse(EmptyStr)}
    \cup {TokenResponse(RefreshTok(n + 1)) :
            n \in {m \in 1..(MaxTokens - 1) : RefreshTok(m) = t.RefreshToken}}

\* c.oauth2Config.TokenSource(ctx, t).Token(): a token that is still valid (it
\* has an access token and its expiry is not in the past) is handed back as
\* it is; for any other token, without a refresh token the call fails before
\* any request; otherwise the refresh token is redeemed, and kept when the
\* answer carries none.
TokenSourceToken(t, rd) ==
    IF t.AccessToken # EmptyStr /\ t.Expiry # "past"
    THEN [ok |-> TRUE, token |-> t, trace |-> <<>>]
    ELSE IF t.RefreshToken = EmptyStr
    THEN [ok |-> FALSE, token |-> NoToken, trace |-> <<>>]
    ELSE IF rd.status # "ok"
    THEN [ok |-> FALSE, token |-> NoToken, trace |-> <<"Redeem">>]
    ELSE [ok |-> TRUE,
          token |-> Token(rd.tr.AccessToken,
                          IF rd.tr.RefreshToken = EmptyStr
                          THEN t.RefreshToken ELSE rd.tr.RefreshToken,
                          rd.tr.TokenType, "future"),
          trace |-> <<"Redeem">>]

\* The stored access token is put into the token as well.
redeemAndResolveWithAccessToken(c, identity, cd, rd, ui, intro, prof) ==
    LET t  == Token(BytesToString(cd.AccessToken), BytesToString(cd.RefreshToken),
                    "", "past")
        ts == TokenSourceToken(t, rd)
    IN
    IF ~ts.ok
    THEN [res |-> Result(identity, Err("RefreshFailed"), ts.trace),
          t |-> t, token |-> NoToken]
    ELSE LET res == createIdentity(c, identity, ts.token, NilRequest, refreshCaller,
                                   ui, intro, prof)
         IN  [res |-> [res EXCEPT !.calls = ts.trace \o @], t |-> t, token |-> ts.token]

\* Refresh past the parsing of the session blob: the expired token that holds
\* the stored refresh token only, its redemption, then the resolver.
redeemAndResolve(c, identity, cd, rd, ui, intro, prof) ==
    LET t  == Token(EmptyStr, BytesToString(cd.RefreshToken), "", "past")
        ts == TokenSourceToken(t, rd)
    IN
    IF ~ts.ok
    THEN [res |-> Result(identity, Err("RefreshFailed"), ts.trace),
          t |-> t, token |-> NoToken]
    ELSE LET res == createIdentity(c, identity, ts.token, NilRequest, refreshCaller,
                                   ui, intro, prof)
         IN  [res |-> [res EXCEPT !.calls = ts.trace \o @], t |-> t, token |-> ts.token]

\* The error of json.Unmarshal is dropped and the zero value it left is used.
RefreshIgnoresParseError(c, identity, rd, ui, intro, prof) ==
    redeemAndResolve(c, identity, UnmarshalConnectorData(identity.ConnectorData).cd,
                     rd, ui, intro, prof)

\* HSDPConnector.Refresh
Refresh(c, identity, rd, ui, intro, prof) ==
    LET parsed == UnmarshalConnectorData(identity.ConnectorData)
    IN
    IF ~parsed.ok
    THEN [res |-> Result(identity, Err("SessionCorrupt"), <<>>),
          t |-> NoToken, token |-> NoToken]
    ELSE redeemAndResolve(c, identity, parsed.cd, rd, ui, intro, prof)

\* The subject token is also kept as the refresh token.
TokenIdentityKeepsToken(c, subjectTokenType, subjectToken, ui, intro, prof) ==
    LET token == Token(subjectToken, subjectToken, "Bearer", "zero")
    IN  [res |-> createIdentity(c, EmptyIdentity, token, NilRequest, exchangeCaller,
                                ui, intro, prof),
         token |-> token]

\* HSDPConnector.TokenIdentity
TokenIdentity(c, subjectTokenType, subjectToken, ui, intro, prof) ==
    LET identity == EmptyIdentity
        token    == Token(subjectToken, EmptyStr, "Bearer", "zero")
    IN  [res |-> createIdentity(c, identity, token, NilRequest, exchangeCaller,
                                ui, intro, prof),
         token |-> token]

\* ----------------------------------------------------------- actions

\* What is known of the identity handed to Refresh: whether its blob is a
\* document json.Unmarshal accepts (parses), its user identifier, the assertion
\* its blob holds and the refresh token of the token it was made from.
NoPrior == [UserID |-> "", Assertion |-> NilBytes, RefreshToken |-> EmptyStr]

NoArg ==
    [offlineAccess |-> FALSE, callbackURL |-> "", state |-> "", r |-> NilRequest,
     src |-> "", origin |-> "", parses |-> TRUE, prior |-> NoPrior,
     subjectToken |-> EmptyStr, cancelAt |-> "never"]

NoUpstream ==
    [exchange |-> NotCalled, redeem |-> NotCalled, userinfo |-> NotCalled,
     introspect |-> NotCalled, profile |-> NotCalled, t |-> NoToken, token |-> NoToken]

Called(trace, name) == \E i \in 1..Len(trace) : trace[i] = name

\* The moment the caller cancels the request context, if it does: never, or
\* while the named call of the resolver is in flight.
CancelPoints == {"never", "UserInfo", "Introspect", "Profile"}

\* provider.UserInfo(ctx, ...) is given the request context: a call that is
\* cancelled in flight returns the context's error.
UserInfoUnder(cancelled) ==
    IF cancelled THEN {[status |-> "error"]} ELSE UserInfoResponses

\* c.introspect(ctx, ...) is given the request context as well.
IntrospectUnder(cancelled) ==
    IF cancelled THEN {[status |-> "error"]} ELSE IntrospectResponses

\* c.client.WithToken(...).Users.LegacyGetUserByUUID(sub) is given no context:
\* the lookup runs to its own end whatever happens to the request context.
ProfileUnder(cancelled) == ProfileResponses

\* The answers the three collaborators of the resolver give during one
\* resolution: a collaborator the resolver never reaches gives none, and a
\* call can only be cancelled in flight if the resolver makes it.
ResolverAnswers(c, cancelAt) ==
    LET probe(ui, intro) ==
            createIdentity(c, EmptyIdentity, NoToken, NilRequest, refreshCaller,
                           ui, intro, CHOOSE p \in ProfileResponses : TRUE).calls
        uis    == UserInfoUnder(cancelAt = "UserInfo")
        intros == IntrospectUnder(cancelAt = "Introspect")
        profs  == ProfileUnder(cancelAt = "Profile")
        all ==
            {<<ui, NotCalled, NotCalled>> : ui \in {u \in uis : u.status # "ok"}}
            \cup
            UNION {
                {<<ui, intro, NotCalled>> :
                    intro \in {i \in intros : ~Called(probe(ui, i), "Profile")}}
                \cup
                {<<ui, intro, prof>> :
                    intro \in {i \in intros : Called(probe(ui, i), "Profile")},
                    prof \in profs}
                : ui \in {u \in uis : u.status = "ok"}}
    IN  IF cancelAt = "Introspect" THEN {a \in all : a[2] # NotCalled}
        ELSE IF cancelAt = "Profile" THEN {a \in all : a[3] # NotCalled}
        ELSE all

NoAnswers == <<NotCalled, NotCalled, NotCalled>>

Connectors == {Open(cfg) : cfg \in Configs}

\* ResolverAnswers, tabulated per connector and cancellation point.
Answers == [c \in Connectors |-> [k \in CancelPoints |-> ResolverAnswers(c, k)]]

\* The goroutines that call Close on the connector.
Goroutines == 1..MaxClosers

\* A goroutine that has not called Close yet: pc is its position (idle, or
\* ret when c.cancel() has run and the return is still to come), n the Close
\* calls it has completed, err the error its current call is about to return,
\* errs the errors its completed calls returned.
Idle == [pc |-> "idle", n |-> 0, err |-> NoErr, errs |-> {}]

Init ==
    /\ conn \in Connectors
    /\ op = "Open"
    /\ arg = NoArg
    /\ up = NoUpstream
    /\ calls = <<>>
    /\ ret = [identity |-> EmptyIdentity, url |-> NoURL, err |-> NoErr]
    /\ parentContext = LiveContext
    /\ closers = [g \in Goroutines |-> Idle]

\* The broker drives the connector one session at a time: a login URL is built,
\* the browser comes back on the callback, and the identity obtained is
\* refreshed; a token exchange opens a session without a browser. No method
\* reads anything an earlier invocation left behind except the identity that
\* is handed to Refresh, so other orders of calls reach the same states.
SessionStart == op \in {"Open", "LoginURL"}

\* LoginURL empties the hosted-domain list it builds the domain hint from.
InvokeLoginURLConsumesDomains ==
    \E offlineAccess \in BOOLEAN, callbackURL \in {RedirectURI, OtherCallbackURL} :
        \E out \in {LoginURL(conn, offlineAccess, callbackURL, "state1")} :
            /\ op' = "LoginURL"
            /\ arg' = [NoArg EXCEPT !.offlineAccess = offlineAccess,
                                    !.callbackURL = callbackURL, !.state = "state1"]
            /\ up' = NoUpstream
            /\ calls' = <<>>
            /\ ret' = [identity |-> EmptyIdentity, url |-> out.url, err |-> out.err]
            /\ conn' = [conn EXCEPT !.hostedDomains = <<>>]
            /\ UNCHANGED <<parentContext, closers>>

InvokeLoginURL ==
    \E offlineAccess \in BOOLEAN, callbackURL \in {RedirectURI, OtherCallbackURL} :
        \E out \in {LoginURL(conn, offlineAccess, callbackURL, "state1")} :
            /\ op' = "LoginURL"
            /\ arg' = [NoArg EXCEPT !.offlineAccess = offlineAccess,
                                    !.callbackURL = callbackURL, !.state = "state1"]
            /\ up' = NoUpstream
            /\ calls' = <<>>
            /\ ret' = [identity |-> EmptyIdentity, url |-> out.url, err |-> out.err]
            /\ UNCHANGED <<conn, parentContext, closers>>

InvokeHandleCallback ==
    /\ op = "LoginURL" /\ ret.err = NoErr
    /\ \E r \in Requests :
        \E ex \in IF r.error = "" THEN ExchangeResponses(conn) ELSE {NotCalled} :
        \E k \in IF ex.status = "ok" THEN CancelPoints ELSE {"never"} :
        \E a \in IF ex.status = "ok" THEN Answers[conn][k] ELSE {NoAnswers} :
            \E out \in {HandleCallback(conn, r, ex, a[1], a[2], a[3])} :
                /\ op' = "HandleCallback"
                /\ arg' = [NoArg EXCEPT !.r = r, !.cancelAt = k]
                /\ up' = [NoUpstream EXCEPT !.exchange = ex, !.userinfo = a[1],
                                            !.introspect = a[2], !.profile = a[3],
                                            !.token = out.token]
                /\ calls' = out.res.calls
                /\ ret' = [identity |-> out.res.identity, url |-> NoURL, err |-> out.res.err]
                /\ UNCHANGED <<conn, parentContext, closers>>

\* Identities a caller may hand to Refresh that no call of this connector returned.
ForgedIdentity(src) ==
    IF src = "empty" THEN EmptyIdentity
    ELSE [UserID |-> "forged", Username |-> "mallory", Email |-> "m@evil.example",
          EmailVerified |-> TRUE,
          ConnectorData |->
            IF src = "garbage" THEN GarbageDoc
            ELSE [MarshalConnectorData(ZeroConnectorData) EXCEPT
                    !.fields.RefreshToken = [t |-> "string", v |-> <<28, 17, 5>>]]]

ForgedSources == {"empty", "garbage", "badbase64"}

IdentityOps == {"HandleCallback", "Refresh", "TokenIdentity"}

\* The caller refreshes the identity the previous call returned, or a forged
\* one. A request whose context the caller cancelled is abandoned by the
\* caller: what it returned is not kept, so it is never handed to Refresh.
RefreshSources ==
    ForgedSources \cup
    (IF op \in IdentityOps /\ ret.err = NoErr /\ arg.cancelAt = "never"
     THEN {"returned"} ELSE {})

\* Refresh up to the point where the token endpoint answers.
RefreshProbe(identity) ==
    Refresh(conn, identity, [status |-> "error"], NotCalled, NotCalled, NotCalled)

InvokeRefresh ==
    \E src \in RefreshSources :
    \E identity \in {IF src = "returned" THEN ret.identity ELSE ForgedIdentity(src)} :
    \E probe \in {RefreshProbe(identity)} :
    \E rd \in IF Called(probe.res.calls, "Redeem")
              THEN RedeemResponses(probe.t) ELSE {NotCalled} :
    \E k \in IF rd.status = "ok" THEN CancelPoints ELSE {"never"} :
    \E a \in IF rd.status = "ok" THEN Answers[conn][k] ELSE {NoAnswers} :
        \E out \in {Refresh(conn, identity, rd, a[1], a[2], a[3])} :
            /\ op' = "Refresh"
            /\ arg' = [NoArg EXCEPT
                        !.cancelAt = k,
                        !.src = src,
                        !.origin = IF src = "returned" THEN op ELSE "forged",
                        !.parses = UnmarshalConnectorData(identity.ConnectorData).ok,
                        !.prior = [UserID |-> identity.UserID,
                                   Assertion |->
                                       UnmarshalConnectorData(identity.ConnectorData).cd.Assertion,
                                   RefreshToken |-> IF src = "returned"
                                                    THEN up.token.RefreshToken
                                                    ELSE EmptyStr]]
            /\ up' = [NoUpstream EXCEPT !.redeem = rd, !.userinfo = a[1],
                                        !.introspect = a[2], !.profile = a[3],
                                        !.t = out.t, !.token = out.token]
            /\ calls' = out.res.calls
            /\ ret' = [identity |-> out.res.identity, url |-> NoURL, err |-> out.res.err]
            /\ UNCHANGED <<conn, parentContext, closers>>

InvokeTokenIdentity ==
    /\ SessionStart
    /\ \E subjectToken \in {SubjectTok} :
        \E k \in CancelPoints :
        \E a \in Answers[conn][k] :
            \E out \in {TokenIdentity(conn, "access_token", subjectToken, a[1], a[2], a[3])} :
                /\ op' = "TokenIdentity"
                /\ arg' = [NoArg EXCEPT !.subjectToken = subjectToken, !.cancelAt = k]
                /\ up' = [NoUpstream EXCEPT !.userinfo = a[1], !.introspect = a[2],
                                            !.profile = a[3], !.token = out.token]
                /\ calls' = out.res.calls
                /\ ret' = [identity |-> out.res.identity, url |-> NoURL, err |-> out.res.err]
                /\ UNCHANGED <<conn, parentContext, closers>>

Next ==
    \/ InvokeLoginURL
    \/ InvokeHandleCallback
    \/ InvokeRefresh
    \/ InvokeTokenIdentity

Spec == Init /\ [][Next]_vars

\* Close, first step: goroutine g calls Close and c.cancel() runs.
CloseCancel(g) ==
    /\ closers[g].pc = "idle" /\ closers[g].n < MaxCloses
    /\ \E out \in {Close(parentContext)} :
        /\ parentContext' = out.ctx
        /\ closers' = [closers EXCEPT ![g].pc = "ret", ![g].err = out.err]
    /\ UNCHANGED <<conn, invocation>>

\* Close, second step: the call of goroutine g returns.
CloseReturn(g) ==
    /\ closers[g].pc = "ret"
    /\ closers' = [closers EXCEPT ![g].pc = "idle", ![g].n = @ + 1,
                                  ![g].err = NoErr,
                                  ![g].errs = @ \cup {closers[g].err}]
    /\ UNCHANGED <<conn, invocation, parentContext>>

CloseNext == \E g \in Goroutines : CloseCancel(g) \/ CloseReturn(g)

\* The goroutines of a shutdown: each calls Close a number of times, in any
\* interleaving of their steps.
CloseSpec == Init /\ [][CloseNext]_vars

\* ------------------------------------------------------------ claims

Resolution == op \in IdentityOps

Succeeded == op \in IdentityOps /\ ret.err = NoErr

\* The session blob of the returned identity, parsed back.
Blob == UnmarshalConnectorData(ret.identity.ConnectorData)

\* The resolver got both the userinfo claims and the introspection result.
Introspected == Resolution /\ up.introspect.status = "ok"

ScopeSetHasEmail == "email" \in {conn.scopes[i] : i \in DOMAIN conn.scopes}

\* C1: every successful resolution, from HandleCallback, Refresh or
\* TokenIdentity, returns as UserID the subject its own introspection call
\* reported, whatever sub the userinfo claims carry and whatever identity
\* the caller passed in.
C1_UserIDIsIntrospectionSubject ==
    Succeeded => ret.identity.UserID = up.introspect.resp.Sub

\* A refresh succeeded for an identity of another user, with userinfo naming
\* a sub that differs from the introspection subject.
C1_Witness ==
    /\ Succeeded /\ op = "Refresh"
    /\ arg.prior.UserID # ret.identity.UserID
    /\ ClaimString(up.userinfo.claims, "sub").v # up.introspect.resp.Sub

\* C2: whenever an invocation returns an error, the identity it returns is
\* the empty identity.
C2_NoIdentityWithError ==
    ret.err # NoErr => ret.identity = EmptyIdentity

\* C3: a callback that carries an error parameter returns the upstream's
\* error code and description, in SAML and in OAuth2 mode, and calls neither
\* the token endpoint nor userinfo, introspection or the profile lookup.
C3_ErrorParameterStopsCallback ==
    (op = "HandleCallback" /\ arg.r.error # "") =>
        /\ ret.err = oauth2Error(arg.r.error, arg.r.error_description)
        /\ calls = <<>>
        /\ up = NoUpstream

\* A SAML-mode callback with an error parameter and an assertion.
C3_Witness ==
    /\ op = "HandleCallback" /\ arg.r.error # ""
    /\ Len(conn.samlLoginURL) > 0 /\ arg.r.assertion = AssertionXYZ

\* C4: LoginURL fails with ConfigMismatch and returns no URL when the
\* callback URL differs from the configured redirect URI, in both modes, and
\* returns a URL only when the two are equal.
C4_CallbackURLMustMatch ==
    op = "LoginURL" =>
        /\ arg.callbackURL # conn.redirectURI =>
               ret.err.kind = "ConfigMismatch" /\ ret.url = NoURL
        /\ ret.url # NoURL => arg.callbackURL = conn.redirectURI /\ ret.err = NoErr

\* LoginURL was refused on a SAML-mode connector.
C4_Witness ==
    /\ op = "LoginURL" /\ arg.callbackURL # conn.redirectURI
    /\ Len(conn.samlLoginURL) > 0

\* C5: when introspection reports identity type Service, the resolution never
\* fails with MissingEmailClaim, and if it succeeds the email returned is the
\* introspection subject, whatever email claim userinfo carries.
C5_ServiceEmailIsSubject ==
    (Introspected /\ up.introspect.resp.IdentityType = "Service") =>
        /\ ret.err.kind # "MissingEmailClaim"
        /\ ret.err = NoErr => ret.identity.Email = up.introspect.resp.Sub

\* A Service identity resolved with the email scope configured and no email
\* claim in userinfo.
C5_Witness ==
    /\ Succeeded /\ up.introspect.resp.IdentityType = "Service"
    /\ ScopeSetHasEmail /\ "email" \notin DOMAIN up.userinfo.claims

\* C6: in every invocation mode, when userinfo carries no email claim and the
\* introspection identity type is not Service, the resolution fails with
\* MissingEmailClaim if the connector's scope set includes email, and does
\* not fail for that reason if it does not.
C6_MissingEmailClaim ==
    (/\ Introspected
     /\ "email" \notin DOMAIN up.userinfo.claims
     /\ up.introspect.resp.IdentityType # "Service") =>
        (ScopeSetHasEmail <=> ret.err.kind = "MissingEmailClaim")

\* A token exchange was rejected for the missing email claim.
C6_Witness ==
    /\ op = "TokenIdentity" /\ ret.err.kind = "MissingEmailClaim"
    /\ "email" \notin DOMAIN up.userinfo.claims
    /\ up.introspect.resp.IdentityType # "Service"

\* The userinfo claims carry an hd claim that equals an entry of the allow-list.
HdClaimListed ==
    /\ "hd" \in DOMAIN up.userinfo.claims
    /\ up.userinfo.claims["hd"].t = "string"
    /\ \E i \in DOMAIN conn.hostedDomains :
           conn.hostedDomains[i] = up.userinfo.claims["hd"].v

\* C7: with a non-empty hosted-domain allow-list a resolution succeeds only
\* if the userinfo hd claim equals an entry of the list, and fails with
\* DomainNotAllowed otherwise, an absent hd claim included; with an empty
\* list no resolution fails with DomainNotAllowed.
C7_HostedDomainAllowList ==
    /\ (Succeeded /\ Len(conn.hostedDomains) > 0) => HdClaimListed
    /\ (/\ Introspected /\ ret.err.kind # "MissingEmailClaim"
        /\ Len(conn.hostedDomains) > 0 /\ ~HdClaimListed) =>
           ret.err.kind = "DomainNotAllowed"
    /\ Len(conn.hostedDomains) = 0 => ret.err.kind # "DomainNotAllowed"

\* C8: the session blob of an identity TokenIdentity returned holds an empty
\* refresh token, and a Refresh of that identity fails with RefreshFailed
\* without a call to the token endpoint or to any collaborator of the resolver.
C8_ExchangeIdentityCannotRefresh ==
    /\ (op = "TokenIdentity" /\ ret.err = NoErr) =>
           Blob.ok /\ BytesToString(Blob.cd.RefreshToken) = EmptyStr
    /\ (op = "Refresh" /\ arg.origin = "TokenIdentity") =>
           /\ ret.err.kind = "RefreshFailed"
           /\ calls = <<>>
           /\ up.userinfo = NotCalled /\ up.introspect = NotCalled
           /\ up.profile = NotCalled

\* Refresh was called with an identity TokenIdentity had just returned.
C8_Witness == op = "Refresh" /\ arg.origin = "TokenIdentity"

\* C9: the session blob of a resolved identity holds the callback's assertion
\* parameter when the resolution ran for a callback on a SAML-mode connector,
\* and no assertion at all in every other case: after a refresh, after a token
\* exchange, and on an OAuth2-mode connector.
C9_AssertionOnlyOnSAMLCreate ==
    Succeeded =>
        /\ Blob.ok
        /\ IF op = "HandleCallback" /\ Len(conn.samlLoginURL) > 0
           THEN Blob.cd.Assertion = ToBytes(arg.r.assertion)
           ELSE Blob.cd.Assertion = NilBytes

\* A refresh succeeded for an identity whose blob held the assertion "XYZ".
C9_Witness ==
    /\ Succeeded /\ op = "Refresh"
    /\ arg.prior.Assertion = ToBytes(AssertionXYZ)

\* C10: the session blob of every resolved identity parses back to the
\* refresh token of the token the resolution used, to its introspection result
\* and to its profile, and a Refresh of a returned identity presents to the
\* upstream the refresh token of the token that identity was made from.
C10_SessionBlobRoundTrip ==
    /\ Succeeded =>
           /\ Blob.ok
           /\ BytesToString(Blob.cd.RefreshToken) = up.token.RefreshToken
           /\ Blob.cd.Introspect = up.introspect.resp
           /\ Blob.cd.User = IF up.profile.hasUser THEN up.profile.user ELSE ZeroProfile
    /\ (op = "Refresh" /\ arg.src = "returned") =>
           up.t.RefreshToken = arg.prior.RefreshToken

\* A refresh of a refreshed identity presented a rotated refresh token and
\* succeeded, with a profile in the new blob.
C10_Witness ==
    /\ Succeeded /\ op = "Refresh" /\ arg.origin = "Refresh"
    /\ up.t.RefreshToken \notin {EmptyStr, RefreshTok(1)}
    /\ up.profile.hasUser

\* No collaborator was called: neither the token endpoint nor the resolver's three.
NothingCalled ==
    /\ calls = <<>>
    /\ up.exchange = NotCalled /\ up.redeem = NotCalled /\ up.userinfo = NotCalled
    /\ up.introspect = NotCalled /\ up.profile = NotCalled

\* C11: a Refresh of an identity whose session blob json.Unmarshal rejects (an
\* empty blob, bytes that are not JSON, a field that is not base64) fails with
\* SessionCorrupt without a redemption, userinfo, introspection or profile
\* call, and a Refresh of an identity whose blob parses never fails that way.
C11_CorruptBlobStopsRefresh ==
    op = "Refresh" =>
        IF arg.parses
        THEN ret.err.kind # "SessionCorrupt"
        ELSE ret.err.kind = "SessionCorrupt" /\ NothingCalled

\* Refresh was called with an identity whose blob is empty.
C11_Witness ==
    /\ op = "Refresh" /\ arg.src = "empty" /\ ~arg.parses
    /\ ret.err.kind = "SessionCorrupt"

\* C12: when the request context is cancelled while the userinfo, the
\* introspection or the profile call of a resolution is in flight, that call
\* is aborted and the resolution fails, with UserInfoFailed or
\* IntrospectionFailed for the first two, and returns the empty identity.
C12_CancellationFailsResolution ==
    (Resolution /\ arg.cancelAt # "never") =>
        /\ ret.err # NoErr
        /\ ret.identity = EmptyIdentity
        /\ arg.cancelAt = "UserInfo" =>
               up.userinfo.status = "error" /\ ret.err.kind = "UserInfoFailed"
        /\ arg.cancelAt = "Introspect" =>
               up.introspect.status = "error" /\ ret.err.kind = "IntrospectionFailed"
        /\ arg.cancelAt = "Profile" => up.profile.status = "error"

\* The email check of the resolver has nothing to object to.
EmailCheckPasses ==
    \/ ClaimString(up.userinfo.claims, "email").ok
    \/ up.introspect.resp.IdentityType = "Service"
    \/ ~ScopeSetHasEmail

\* The hosted-domain check has nothing to object to.
DomainCheckPasses == Len(conn.hostedDomains) = 0 \/ HdClaimListed

\* C13: when userinfo and introspection answer and the email and hosted-domain
\* checks pass, the profile lookup is made and the resolution succeeds whether
\* the lookup fails or not, with an empty profile in the session blob when it
\* fails; a failure of userinfo or of introspection fails the resolution.
C13_ProfileLookupIsNotFatal ==
    /\ (Introspected /\ EmailCheckPasses /\ DomainCheckPasses) =>
           /\ up.profile # NotCalled
           /\ ret.err = NoErr
           /\ up.profile.status = "error" => Blob.ok /\ Blob.cd.User = ZeroProfile
    /\ (Resolution /\ up.userinfo.status \in {"error", "badclaims"}) =>
           ret.err.kind = "UserInfoFailed"
    /\ (Resolution /\ up.introspect.status = "error") =>
           ret.err.kind = "IntrospectionFailed"

\* A callback was resolved although the profile lookup failed.
C13_Witness ==
    /\ op = "HandleCallback" /\ ret.err = NoErr
    /\ up.profile.status = "error"
    /\ Blob.cd.User = ZeroProfile

\* The calls of the latest invocation that the resolver made.
ResolverCalls ==
    SelectSeq(calls, LAMBDA x : x \in {"UserInfo", "Introspect", "Profile"})

\* C14: the resolver calls userinfo, then introspection, then the profile
\* lookup, each at most once; after a userinfo failure neither introspection
\* nor the profile lookup is called, and after an introspection failure, a
\* MissingEmailClaim or a DomainNotAllowed rejection the profile lookup is not.
C14_ResolverCallOrder ==
    /\ ResolverCalls \in {<<>>, <<"UserInfo">>, <<"UserInfo", "Introspect">>,
                         <<"UserInfo", "Introspect", "Profile">>}
    /\ Called(calls, "UserInfo") <=> up.userinfo # NotCalled
    /\ Called(calls, "Introspect") <=> up.introspect # NotCalled
    /\ Called(calls, "Profile") <=> up.profile # NotCalled
    /\ ret.err.kind = "UserInfoFailed" => ResolverCalls = <<"UserInfo">>
    /\ ret.err.kind \in {"IntrospectionFailed", "MissingEmailClaim", "DomainNotAllowed"} =>
           ResolverCalls = <<"UserInfo", "Introspect">>

\* A refresh redeemed its token and was then rejected for the hosted domain.
C14_Witness ==
    /\ op = "Refresh" /\ ret.err.kind = "DomainNotAllowed"
    /\ calls = <<"Redeem", "UserInfo", "Introspect">>

\* the context after one Close
CanceledContext == [done |-> TRUE, err |-> "context canceled"]

\* c.cancel() has run at least once.
CancelHasRun == \E g \in Goroutines : closers[g].pc = "ret" \/ closers[g].n > 0

\* C15: every Close call, whatever other Close calls ran before it or run at
\* the same time, returns no error, and from the first c.cancel() on the
\* connector's context is in the state one Close leaves it in.
C15_CloseIsIdempotent ==
    /\ \A g \in Goroutines : closers[g].errs \subseteq {NoErr}
    /\ parentContext = IF CancelHasRun THEN CanceledContext ELSE LiveContext

\* Two goroutines are inside Close at the same time, both in a second call.
C15_Witness ==
    /\ \A g \in Goroutines : closers[g].pc = "ret" /\ closers[g].n >= 1
    /\ Cardinality(Goroutines) >= 2

UrlParam(k) == {p.v : p \in {q \in ret.url.q : q.k = k}}

\* C17: on a connector with no SAML login URL, LoginURL returns nothing that
\* names the SAML login page, and when the callback URL is the configured one
\* it returns the authorization-code URL with the redirect URI and the state;
\* on a connector with a SAML login URL, a LoginURL that succeeds returns that
\* page with the callback URL, state included, as its redirect_uri.
C17_LoginURLFollowsMode ==
    op = "LoginURL" =>
        IF Len(conn.samlLoginURL) = 0
        THEN /\ ret.url.path # SAMLLoginURL
             /\ \A p \in ret.url.q : p.v # [str |-> SAMLLoginURL]
             /\ arg.callbackURL = conn.redirectURI => ret.err = NoErr
             /\ ret.err = NoErr =>
                    /\ ret.url.path = AuthURL
                    /\ UrlParam("redirect_uri") = {[str |-> conn.redirectURI]}
                    /\ UrlParam("state") = {[str |-> arg.state]}
        ELSE ret.err = NoErr =>
                    /\ ret.url.path = conn.samlLoginURL
                    /\ UrlParam("redirect_uri") =
                           {[url |-> [path |-> arg.callbackURL,
                                      q |-> {[k |-> "state", v |-> [str |-> arg.state]]}]]}

\* LoginURL succeeded on a SAML-mode connector that lists hosted domains.
C17_Witness ==
    /\ op = "LoginURL" /\ ret.err = NoErr
    /\ ret.url.path = SAMLLoginURL /\ Len(conn.hostedDomains) > 1

ResolverNotEntered ==
    /\ ResolverCalls = <<>>
    /\ up.userinfo = NotCalled /\ up.introspect = NotCalled /\ up.profile = NotCalled

\* C19: the token a Refresh hands to the token source has no access token and
\* no token type and an expiry in the past; the resolver is entered only
\* after the redemption call succeeded, with the token that call produced and
\* without an assertion to save; when the redemption fails, or cannot be
\* attempted for want of a refresh token, Refresh fails with RefreshFailed
\* and the resolver is not entered.
C19_RefreshRedeemsFirst ==
    (op = "Refresh" /\ arg.parses) =>
        /\ up.t.AccessToken = EmptyStr /\ up.t.TokenType = "" /\ up.t.Expiry = "past"
        /\ ~ResolverNotEntered =>
               /\ up.redeem.status = "ok" /\ calls[1] = "Redeem"
               /\ up.token.AccessToken = up.redeem.tr.AccessToken
               /\ up.token.RefreshToken \in {up.redeem.tr.RefreshToken, up.t.RefreshToken}
               /\ ret.err = NoErr => Blob.cd.Assertion = NilBytes
        /\ up.redeem.status # "ok" =>
               ret.err.kind = "RefreshFailed" /\ ResolverNotEntered
        /\ up.redeem = NotCalled <=> up.t.RefreshToken = EmptyStr

\* The identity of a SAML callback was refreshed and the upstream refused the
\* refresh token.
C19_Witness ==
    /\ op = "Refresh" /\ arg.origin = "HandleCallback"
    /\ arg.prior.Assertion = ToBytes(AssertionXYZ)
    /\ up.redeem.status = "error" /\ ret.err.kind = "RefreshFailed"

\* C20: a callback without an error parameter makes the bearer-assertion
\* exchange first on a SAML-mode connector and the code exchange first on an
\* OAuth2-mode one, and never the other; when that exchange fails (network
\* error, unreadable body, non-200 status or malformed JSON for the first,
\* any error for the second) the callback fails with TokenExchangeFailed, no
\* identity is returned and the resolver is not entered; the resolver is
\* entered only with the token a successful exchange produced.
C20_ExchangeBeforeResolver ==
    (op = "HandleCallback" /\ arg.r.error = "") =>
        /\ calls[1] = IF Len(conn.samlLoginURL) > 0
                      THEN "AssertionExchange" ELSE "CodeExchange"
        /\ ~Called(calls, IF Len(conn.samlLoginURL) > 0
                          THEN "CodeExchange" ELSE "AssertionExchange")
        /\ up.exchange.status # "ok" =>
               /\ ret.err.kind = "TokenExchangeFailed"
               /\ ret.identity = EmptyIdentity
               /\ Len(calls) = 1 /\ ResolverNotEntered
        /\ ~ResolverNotEntered =>
               /\ up.exchange.status = "ok"
               /\ up.token.AccessToken = up.exchange.tr.AccessToken
               /\ up.token.RefreshToken = up.exchange.tr.RefreshToken

\* A SAML-mode callback failed on a token response that is not JSON.
C20_Witness ==
    /\ op = "HandleCallback" /\ Len(conn.samlLoginURL) > 0
    /\ up.exchange.status = "badjson" /\ ret.err.kind = "TokenExchangeFailed"

====
